---- MODULE Spec2Model ----
(***************************************************************************)
(* Model of the safety shield of src/src/policy.py: ProjectionPolicy       *)
(* (backup, solve, __call__, unsafe), Shield (__call__, report,            *)
(* reset_count) and CSCShield (__call__); and of the replay buffer of      *)
(* src/pytorch_soft_actor_critic/replay_memory.py: ReplayMemory (push,     *)
(* sample).                                                                *)
(*                                                                         *)
(* Numbers.  The program computes over floats; the model computes over the *)
(* integer lattice.  States, actions, polytope rows and the matrices of    *)
(* the local linear model are integer valued, and the convex solvers       *)
(* (cvxopt.solvers.qp, scipy.optimize.linprog) are exact on that lattice:  *)
(* a QP is "optimal" exactly when a lattice point satisfies its            *)
(* constraints and its solution is the lattice minimiser of its objective. *)
(* Norms are only ever compared with each other or with zero, so they are  *)
(* kept squared (NormSq).  Vectors are sequences, matrices are sequences   *)
(* of rows, None is the empty sequence.  An exception that leaves a method *)
(* is the field `raised` of the method's result.                           *)
(***************************************************************************)
EXTENDS Integers, Sequences, FiniteSets, TLC

(***************************************************************************)
(* Bounds of the model.                                                    *)
(***************************************************************************)
MaxH == 2
MaxCalls == 2
MaxDur == 1
MaxAct == 2
MaxScore == 2
MaxCap == 3
MaxPush == 6

(***************************************************************************)
(* Linear algebra (numpy).                                                 *)
(***************************************************************************)
Abs(n) == IF n < 0 THEN -n ELSE n

\* np.array: the function f over 1..n as a sequence with its entries computed.
Array(f) == f \o << >>

RECURSIVE DotTo(_, _, _)
DotTo(a, b, n) == IF n = 0 THEN 0 ELSE a[n] * b[n] + DotTo(a, b, n - 1)

\* np.dot of two vectors.  (The LET definitions of this module name a value
\* that is used more than once, so that it is computed once.)
Dot(a, b) ==
    LET x == a
        y == b
    IN DotTo(x, y, Len(x))

NormSq(v) == Dot(v, v)

VecAdd(a, b) ==
    LET x == a
        y == b
    IN Array([i \in 1..Len(x) |-> x[i] + y[i]])

VecNeg(a) ==
    LET x == a
    IN Array([i \in 1..Len(x) |-> -x[i]])

Zeros(n) == Array([i \in 1..n |-> 0])

ZeroMat(r, k) == Array([i \in 1..r |-> Zeros(k)])

Eye(n) == Array([i \in 1..n |-> Array([j \in 1..n |-> IF i = j THEN 1 ELSE 0])])

Cols(X) == IF Len(X) = 0 THEN 0 ELSE Len(X[1])

Column(X, j) ==
    LET Y == X
    IN Array([i \in 1..Len(Y) |-> Y[i][j]])

Transpose(X) ==
    LET Y == X
    IN Array([j \in 1..Cols(Y) |-> Column(Y, j)])

MatVec(X, v) ==
    LET Y == X
        w == v
    IN Array([i \in 1..Len(Y) |-> Dot(Y[i], w)])

MatMul(X, Y) ==
    LET L == X
        R == Transpose(Y)
    IN Array([i \in 1..Len(L) |-> Array([j \in 1..Len(R) |-> Dot(L[i], R[j])])])

AbsMat(X) ==
    LET Y == X
    IN Array([i \in 1..Len(Y) |-> Array([j \in 1..Len(Y[i]) |-> Abs(Y[i][j])])])

RECURSIVE MatPow(_, _)
MatPow(X, n) ==
    LET Y == X
    IN IF n = 0 THEN Eye(Len(Y)) ELSE MatMul(Y, MatPow(Y, n - 1))

\* np.allclose(a, b) with the default rtol = 1e-5, atol = 1e-8:
\* |a - b| <= atol + rtol * |b| component-wise, scaled by 1e8.
AllClose(a, b) ==
    \A i \in 1..Len(a) : Abs(a[i] - b[i]) * 100000000 <= 1 + 1000 * Abs(b[i])

\* Lexicographic order on vectors of equal length (ties of the lattice solver).
RECURSIVE LexLeq(_, _)
LexLeq(a, b) ==
    IF Len(a) = 0 THEN TRUE
    ELSE IF a[1] # b[1] THEN a[1] < b[1]
    ELSE LexLeq(Tail(a), Tail(b))

\* The lattice minimiser of Obj over the set S (S non-empty); among equal
\* objectives, the first in lexicographic order.
ArgMin(S, Obj(_)) ==
    LET T == S
        vals == {Obj(u) : u \in T}
        least == CHOOSE m \in vals : \A n \in vals : m <= n
        ties == {u \in T : Obj(u) = least}
    IN CHOOSE u \in ties : \A v \in ties : LexLeq(u, v)

(***************************************************************************)
(* Configuration: gym spaces, polytopes, local models.                     *)
(***************************************************************************)
\* action_space.low / action_space.high, one entry per action dimension.
action_low == <<-MaxAct>>
action_high == <<MaxAct>>

u_dim == Len(action_low)

\* self.action_space
action_space == [low |-> action_low, high |-> action_high]

\* state_space: the box of states presented to the shield.
state_low == <<0, 0>>
state_high == <<2, 1>>

s_dim == Len(state_low)

States ==
    {x \in [1..s_dim -> 0..2] :
        \A i \in 1..s_dim : state_low[i] <= x[i] /\ x[i] <= state_high[i]}

\* What the untrusted policy may propose: any action, also one step out of
\* the bounds.
PolicyActs ==
    {a \in [1..u_dim -> (-MaxAct - 1)..(MaxAct + 1)] :
        \A i \in 1..u_dim : action_low[i] - 1 <= a[i] /\ a[i] <= action_high[i] + 1}

\* The lattice points of the action box repeated over n steps.
BoxSeqs(space, n) ==
    {u \in [1..(n * u_dim) -> UNION {space.low[i]..space.high[i] : i \in 1..u_dim}] :
        \A k \in 1..(n * u_dim) :
            /\ space.low[((k - 1) % u_dim) + 1] <= u[k]
            /\ u[k] <= space.high[((k - 1) % u_dim) + 1]}

\* A polytope is a matrix [P | b]: row (p1, .., pn, b) means p.x + b <= 0.
PolyLe1 == << <<1, 0, -1>> >>
PolyLe0 == << <<1, 0, 0>> >>
PolyGe0 == << <<-1, 0, 0>> >>
PolyFlat == << <<0, 1, 0>> >>
PolyBand == << <<1, 0, -1>>, <<-1, 0, -1>>, <<0, 1, -1>> >>
PolyGe2 == << <<-1, 0, 2>> >>
PolyGe1V == << <<-1, 0, 1>>, <<0, -1, 1>> >>
PolyLeM1 == << <<1, 0, 1>> >>

\* The (safe_polys, unsafe_polys) pairs handed to ProjectionPolicy.__init__,
\* by name.
PolyConfigs == {"nested", "reversed", "flat", "band", "split"}

SafePolys(name) ==
    CASE name = "nested"   -> <<PolyLe1, PolyLe0, PolyGe0>>
      [] name = "reversed" -> <<PolyGe0, PolyLe0, PolyLe1>>
      [] name = "flat"     -> <<PolyFlat>>
      [] name = "band"     -> <<PolyBand>>
      [] name = "split"    -> <<PolyLe0, PolyGe0>>

UnsafePolys(name) ==
    CASE name = "nested"   -> <<PolyGe2, PolyGe1V>>
      [] name = "reversed" -> <<PolyGe1V, PolyGe2>>
      [] name = "flat"     -> <<PolyGe2, PolyLeM1>>
      [] name = "band"     -> << >>
      [] name = "split"    -> <<PolyGe2>>

\* Local linear models [A | B | c] with uncertainty radius eps.
DynShift == [A |-> <<<<1, 0>>, <<0, 1>>>>, B |-> <<<<1>>, <<0>>>>,
             c |-> <<0, 0>>, eps |-> <<0, 0>>]
DynDrift == [A |-> <<<<1, 0>>, <<0, 1>>>>, B |-> <<<<1>>, <<0>>>>,
             c |-> <<1, 0>>, eps |-> <<1, 0>>]
DynIntegrator == [A |-> <<<<1, 1>>, <<0, 1>>>>, B |-> <<<<0>>, <<1>>>>,
                  c |-> <<0, 0>>, eps |-> <<0, 1>>]

\* The environments: "drift" is one linear model everywhere, "mixed" is
\* locally linear, with one model where the second coordinate is 0 and
\* another elsewhere.
Envs == {"drift", "mixed"}

Horizons == 0..MaxH

Ties == {"low", "high"}

None == << >>

\* The ProjectionPolicy objects of the model: the fields __init__ sets from
\* its arguments, and the behaviour of the linear-program solver (its pick
\* for a component with a zero cost coefficient).
Selves ==
    [horizon : Horizons, polys : PolyConfigs, env : Envs, lpTie : Ties]

VARIABLES
    horizon,        \* ProjectionPolicy.horizon
    polys,          \* ProjectionPolicy.safe_polys and unsafe_polys, by name
    env,            \* ProjectionPolicy.env
    lpTie,          \* solver: linprog's pick for a zero cost coefficient
    saved_state,    \* ProjectionPolicy.saved_state
    saved_action,   \* ProjectionPolicy.saved_action
    shield_times,   \* Shield.shield_times
    agent_times,    \* Shield.agent_times
    total_time,     \* Shield.total_time
    last,           \* history: the last operation, its inputs and outcome
    tally,          \* history: the decisions since the last reset, by outcome
    csc,            \* CSCShield: its threshold and the locals of its __call__
    memory          \* ReplayMemory: capacity, buffer, position, and history

vars == <<horizon, polys, env, lpTie,
          saved_state, saved_action, shield_times, agent_times, total_time,
          last, tally, csc, memory>>

\* No CSCShield has been constructed.
NoCsc == [pc |-> "none"]

\* No ReplayMemory has been constructed.
NoMemory == [op |-> "none"]

config == <<horizon, polys, env, lpTie>>

Self == [horizon |-> horizon, polys |-> polys, env |-> env, lpTie |-> lpTie]

safe_polys == SafePolys(polys)

unsafe_polys == UnsafePolys(polys)

(***************************************************************************)
(* The local model provider.                                               *)
(***************************************************************************)
\* env.get_matrix_at_point(point, s_dim): the matrix [A | B | c] and eps of
\* the model that is valid near the point.
GetMatrixAtPoint(e, point, sdim) ==
    IF e = "drift" THEN DynDrift
    ELSE IF point[sdim] = 0 THEN DynShift
    ELSE DynIntegrator

(***************************************************************************)
(* HorizonConstraintBuilder: the matrices F, G, h of solve.                *)
(***************************************************************************)
\* poly[:, :-1] and poly[:, -1]
PolyP(poly) ==
    LET p == poly
    IN Array([i \in 1..Len(p) |-> SubSeq(p[i], 1, Len(p[i]) - 1)])

PolyB(poly) ==
    LET p == poly
    IN Array([i \in 1..Len(p) |-> p[i][Len(p[i])]])

\* np.all(np.dot(P_poly, state) + b_poly <= 0.0)
InPoly(poly, state) ==
    LET P_poly == PolyP(poly)
        b_poly == PolyB(poly)
        x == state
    IN \A i \in 1..Len(P_poly) : Dot(P_poly[i], x) + b_poly[i] <= 0

\* An F that does not propagate the rows through the model.
FMatStatic(poly, dyn, j, t) == PolyP(poly)

\* F[j-1][t] of the code, for 0 <= t <= j.
RECURSIVE FMat(_, _, _, _)
FMat(poly, dyn, j, t) ==
    IF t = j THEN PolyP(poly) ELSE MatMul(FMat(poly, dyn, j, t + 1), dyn.A)

\* G[j-1][t] of the code, for 0 <= t <= j.
GMat(poly, dyn, j, t) ==
    IF t = j THEN ZeroMat(Len(poly), u_dim)
    ELSE MatMul(FMat(poly, dyn, j, t + 1), dyn.B)

\* A margin that forgets the absolute value of the rows.
EpsSigned(Fm, eps) == MatVec(Fm, eps)

\* epsmax: the largest deviation the interval eps allows along the rows of Fm.
EpsMax(Fm, eps) == MatVec(AbsMat(Fm), eps)

\* An h that forgets the constant term c of the model.
RECURSIVE HVecNoDrift(_, _, _, _)
HVecNoDrift(poly, dyn, j, t) ==
    IF t = j THEN PolyB(poly)
    ELSE VecAdd(HVecNoDrift(poly, dyn, j, t + 1),
                EpsMax(FMat(poly, dyn, j, t + 1), dyn.eps))

\* h[j-1][t] of the code, for 0 <= t <= j.
RECURSIVE HVec(_, _, _, _)
HVec(poly, dyn, j, t) ==
    IF t = j THEN PolyB(poly)
    ELSE LET Fnext == FMat(poly, dyn, j, t + 1)
         IN VecAdd(VecAdd(MatVec(Fnext, dyn.c), HVec(poly, dyn, j, t + 1)),
                   EpsMax(Fnext, dyn.eps))

\* A block row that lets the actions after step j into the rows of step j.
GExtAcausal(poly, dyn, j, t) ==
    IF t < j THEN GMat(poly, dyn, j, t) ELSE MatMul(PolyP(poly), dyn.B)

\* G[j-1] extended with zero blocks to one block per step, last entry
\* dropped: the block of step t (0 <= t < H) in the safety rows of step j.
GExt(poly, dyn, j, t) ==
    IF t <= j THEN GMat(poly, dyn, j, t) ELSE ZeroMat(Len(poly), u_dim)

(***************************************************************************)
(* The assembled system M.u + bias <= 0.                                   *)
(***************************************************************************)
\* The safety rows: for j = 1..H, the rows of the polytope at step j.
SafetyM(poly, dyn, H) ==
    LET step == Len(poly)
        Gs == Array([j \in 1..H |->
                    Array([t1 \in 1..H |-> GExt(poly, dyn, j, t1 - 1)])])
    IN Array([r \in 1..(H * step) |->
          Array([k \in 1..(H * u_dim) |->
              Gs[((r - 1) \div step) + 1][((k - 1) \div u_dim) + 1]
                [((r - 1) % step) + 1][((k - 1) % u_dim) + 1]])])

SafetyBias(poly, dyn, H, state) ==
    LET step == Len(poly)
        bs == Array([j \in 1..H |->
                    VecAdd(HVec(poly, dyn, j, 0), MatVec(FMat(poly, dyn, j, 0), state))])
    IN Array([r \in 1..(H * step) |-> bs[((r - 1) \div step) + 1][((r - 1) % step) + 1]])

\* The action-bound rows: per step, u_dim rows u <= high, then u_dim rows
\* -u <= -low.
BoundM(H) ==
    Array([q \in 1..(2 * H * u_dim) |->
        Array([k \in 1..(H * u_dim) |->
            LET j == (q - 1) \div (2 * u_dim)
                w == (q - 1) % (2 * u_dim)
            IN IF (k - 1) \div u_dim # j THEN 0
               ELSE IF w < u_dim
                    THEN (IF (k - 1) % u_dim = w THEN 1 ELSE 0)
                    ELSE (IF (k - 1) % u_dim = w - u_dim THEN -1 ELSE 0)])])

\* Bound rows that admit one unit beyond the action bounds.
BoundBiasLoose(space, H) ==
    Array([q \in 1..(2 * H * u_dim) |->
        LET w == (q - 1) % (2 * u_dim)
        IN IF w < u_dim THEN -space.high[w + 1] - 1 ELSE space.low[w - u_dim + 1] - 1])

BoundBias(space, H) ==
    Array([q \in 1..(2 * H * u_dim) |->
        LET w == (q - 1) % (2 * u_dim)
        IN IF w < u_dim THEN -space.high[w + 1] ELSE space.low[w - u_dim + 1]])

AssembleM(poly, dyn, H) == SafetyM(poly, dyn, H) \o BoundM(H)

AssembleBias(space, poly, dyn, H, state) == SafetyBias(poly, dyn, H, state) \o BoundBias(space, H)

\* M.u + bias <= 0, row by row.
Satisfies(M, bias, u) ==
    LET x == u
    IN \A r \in 1..Len(M) : Dot(M[r], x) + bias[r] <= 0

(***************************************************************************)
(* SafetyQP, tier 1: the first action fixed to the given action.           *)
(***************************************************************************)
\* M[:, :u_dim] and M[:, u_dim:]
MFirst(M) ==
    LET Y == M
    IN Array([r \in 1..Len(Y) |-> SubSeq(Y[r], 1, u_dim)])

MRest(M) ==
    LET Y == M
    IN Array([r \in 1..Len(Y) |-> SubSeq(Y[r], u_dim + 1, Len(Y[r]))])

\* A bias that is not adjusted for the fixed first action.
NewBiasFree(M, bias, action) == bias

\* new_bias = bias + M_first . action
NewBias(M, bias, action) == VecAdd(bias, MatVec(MFirst(M), action))

\* Setting up the fixed QP raises outside the try block of the solver call:
\* np.eye(fixed_total) for a negative fixed_total, and np.concatenate of the
\* empty list [act_bounds] * (horizon - 1).
FixedSetupRaises(H) == (H - 1) * u_dim < 0 \/ H - 1 <= 0

\* The points x = [u1; ..; u_{H-1}] with G_total.x <= h_total: the rows
\* M_rest.x <= -new_bias and the rows of G_bounds (the box of bounds_fixed).
FixedSolutions(space, M, bias, action, H) ==
    LET M_rest == MRest(M)
        new_bias == NewBias(M, bias, action)
    IN {x \in BoxSeqs(space, H - 1) : Satisfies(M_rest, new_bias, x)}

\* fixed_feasible: sol_fixed['status'] == 'optimal'
FixedFeasible(space, M, bias, action, H) == FixedSolutions(space, M, bias, action, H) # {}

\* The objective of the fixed QP, (1/2) x'(1e-4 I)x, scaled by 2e4.
FixedObj(x) == NormSq(x)

(***************************************************************************)
(* SafetyQP, tier 2: the full decision vector free.                        *)
(***************************************************************************)
FullSolutions(space, M, bias, H) ==
    LET Y == M
        b == bias
    IN {u \in BoxSeqs(space, H) : Satisfies(Y, b, u)}

\* An objective whose regulariser weighs as much as the pull towards the
\* action: P_full = I + I on the first block.
FullObjUnweighted(u, action) ==
    LET x == u
        u0 == SubSeq(x, 1, u_dim)
    IN NormSq(u0) - 2 * Dot(action, u0) + NormSq(x)

\* (1/2) u'P_full u + q_full'u with P_full = 1e-4 I + I on the first block
\* and q_full = -[action; 0], scaled by 2e4.
FullObj(u, action) ==
    LET x == u
        u0 == SubSeq(x, 1, u_dim)
    IN 10000 * NormSq(u0) - 20000 * Dot(action, u0) + NormSq(x)

\* candidate_score of tier 2: the norm of candidate_u0 - action (squared).
CandidateScore(u0, action) == NormSq(VecAdd(u0, VecNeg(action)))

(***************************************************************************)
(* One iteration of the loop of solve over the safe polytopes.             *)
(***************************************************************************)
NoCandidate == [produced |-> FALSE, raised |-> FALSE, member |-> FALSE,
                tier |-> 0, u0 |-> None, score |-> 0, seq |-> None]

\* Tier 1 of one polytope: the candidate (action, 0).
FixedCandidate(space, M, bias, action, H) ==
    [produced |-> TRUE, raised |-> FALSE, member |-> TRUE, tier |-> 1,
     u0 |-> action, score |-> 0,
     seq |-> action \o ArgMin(FixedSolutions(space, M, bias, action, H), FixedObj)]

\* Tier 2 of one polytope: the first block of the minimiser and its score,
\* or no candidate.
FullCandidate(space, M, bias, action, H) ==
    LET full == FullSolutions(space, M, bias, H)
        Obj(u) == FullObj(u, action)
        full_sol == ArgMin(full, Obj)
    IN IF full = {} THEN [NoCandidate EXCEPT !.member = TRUE]
       ELSE [produced |-> TRUE, raised |-> FALSE, member |-> TRUE, tier |-> 2,
             u0 |-> SubSeq(full_sol, 1, u_dim),
             score |-> CandidateScore(SubSeq(full_sol, 1, u_dim), action),
             seq |-> full_sol]

\* An iteration that, for a horizon without any step, skips both QPs and
\* takes the action as certified.
PolyCandidateAnyHorizon(space, poly, dyn, H, state, action) ==
    IF ~InPoly(poly, state) THEN NoCandidate
    ELSE IF H < 1
    THEN [produced |-> TRUE, raised |-> FALSE, member |-> TRUE, tier |-> 1,
          u0 |-> action, score |-> 0, seq |-> action]
    ELSE IF FixedSetupRaises(H)
    THEN [NoCandidate EXCEPT !.member = TRUE, !.raised = TRUE]
    ELSE LET M == AssembleM(poly, dyn, H)
             bias == AssembleBias(space, poly, dyn, H, state)
         IN IF FixedFeasible(space, M, bias, action, H)
            THEN FixedCandidate(space, M, bias, action, H)
            ELSE FullCandidate(space, M, bias, action, H)

PolyCandidate(space, poly, dyn, H, state, action) ==
    IF ~InPoly(poly, state) THEN NoCandidate
    ELSE IF FixedSetupRaises(H)
    THEN [NoCandidate EXCEPT !.member = TRUE, !.raised = TRUE]
    ELSE LET M == AssembleM(poly, dyn, H)
             bias == AssembleBias(space, poly, dyn, H, state)
         IN IF FixedFeasible(space, M, bias, action, H)
            THEN FixedCandidate(space, M, bias, action, H)
            ELSE FullCandidate(space, M, bias, action, H)

\* The iterations of the loop of solve, one per safe polytope, each taken on
\* its own; computed once.
CandTable ==
    [H \in Horizons |->
        [name \in PolyConfigs |->
            [e \in Envs |->
                [state \in States |->
                    [action \in PolicyActs |->
                        [i \in 1..Len(SafePolys(name)) |->
                            PolyCandidate(action_space, SafePolys(name)[i],
                                          GetMatrixAtPoint(e, state \o action, s_dim),
                                          H, state, action)] \o << >>] @@ << >>]
                @@ << >>] @@ << >>] @@ << >>] @@ << >>

\* best_score = 1e10 (cut to the integers of the model checker).
BestScoreInit == 2147483647

BestInit == [score |-> BestScoreInit, u0 |-> None, tier |-> 0, poly |-> 0,
             raised |-> FALSE]

\* A loop that keeps the candidate of the last polytope that produced one.
KeepLast(best, cand, i) ==
    LET c == cand
    IN IF c.raised THEN [best EXCEPT !.raised = TRUE]
       ELSE IF c.produced
       THEN [best EXCEPT !.score = c.score, !.u0 = c.u0, !.tier = c.tier, !.poly = i]
       ELSE best

\* A loop that replaces the kept candidate by one of the same score.
KeepBestOrEqual(best, cand, i) ==
    LET c == cand
    IN IF c.raised THEN [best EXCEPT !.raised = TRUE]
       ELSE IF c.produced /\ c.score <= best.score
       THEN [best EXCEPT !.score = c.score, !.u0 = c.u0, !.tier = c.tier, !.poly = i]
       ELSE best

\* if candidate_score < best_score: keep the candidate of polytope i.
KeepBest(best, cand, i) ==
    LET c == cand
    IN IF c.raised THEN [best EXCEPT !.raised = TRUE]
       ELSE IF c.produced /\ c.score < best.score
       THEN [best EXCEPT !.score = c.score, !.u0 = c.u0, !.tier = c.tier, !.poly = i]
       ELSE best

\* A loop that a polytope failing both tiers ends: break for continue.
RECURSIVE SolveLoopBreak(_, _, _)
SolveLoopBreak(cands, i, best) ==
    IF i > Len(cands) \/ best.raised THEN best
    ELSE LET cand == cands[i]
         IN IF cand.member /\ ~cand.produced /\ ~cand.raised THEN best
            ELSE SolveLoopBreak(cands, i + 1, KeepBest(best, cand, i))

\* for poly in self.safe_polys, from polytope i on; cands[i] is the
\* iteration of polytope i; an exception ends the loop.
RECURSIVE SolveLoop(_, _, _)
SolveLoop(cands, i, best) ==
    IF i > Len(cands) \/ best.raised THEN best
    ELSE SolveLoop(cands, i + 1, KeepBest(best, cands[i], i))

(***************************************************************************)
(* BackupController: ProjectionPolicy.backup.                              *)
(***************************************************************************)
\* The displacements the lattice solver searches.
Displacements == [1..s_dim -> -3..3]

\* The QP of one unsafe polytope: minimise |p|^2 subject to
\* tmp.p <= -unsafe_mat[:, -1] - tmp.state.
BackupFeasible(unsafe_mat, state) ==
    LET P_poly == PolyP(unsafe_mat)
        b_poly == PolyB(unsafe_mat)
        x == state
    IN {d \in Displacements :
          \A i \in 1..Len(P_poly) : Dot(P_poly[i], d) <= -b_poly[i] - Dot(P_poly[i], x)}

\* best_val = 1e10 and best_proj = zeros before the loop.
BackupInit(state) ==
    [val |-> BestScoreInit, proj |-> Zeros(Len(state)), raised |-> FALSE]

\* if val < best_val: keep soln.  A polytope without a solution has no
\* sol['x'] to take the norm of: the call fails.
BackupKeep(best, unsafe_mat, state) ==
    LET feasible == BackupFeasible(unsafe_mat, state)
        soln == ArgMin(feasible, NormSq)
        val == NormSq(soln)
    IN IF feasible = {} THEN [best EXCEPT !.raised = TRUE]
       ELSE IF val < best.val
       THEN [best EXCEPT !.val = val, !.proj = soln]
       ELSE best

RECURSIVE BackupLoop(_, _, _, _)
BackupLoop(polyList, i, state, best) ==
    IF i > Len(polyList) \/ best.raised THEN best
    ELSE LET kept == BackupKeep(best, polyList[i], state)
         IN BackupLoop(polyList, i + 1, state, kept)

\* best_proj / np.linalg.norm(best_proj) is the unit vector along best_proj,
\* and the vector of NaN when best_proj is the zero vector.  m and the
\* linear program depend on the direction only, so the unit vector is
\* represented by best_proj itself.
ProjIsNaN(best_proj) == NormSq(best_proj) = 0

\* An m that points along best_proj instead of against it.
BackupMTowards(dyn, H, best_proj) ==
    LET blocks == Array([i1 \in 1..H |->
                     MatVec(Transpose(MatMul(MatPow(dyn.A, H - (i1 - 1) - 1), dyn.B)),
                            best_proj)])
    IN Array([k \in 1..(H * u_dim) |->
          blocks[((k - 1) \div u_dim) + 1][((k - 1) % u_dim) + 1]])

\* m[u_dim*i : u_dim*(i+1)] = ((A^(H-i-1) B)^T (-best_proj))^T
BackupM(dyn, H, best_proj) ==
    LET q == VecNeg(best_proj)
        blocks == Array([i1 \in 1..H |->
                     MatVec(Transpose(MatMul(MatPow(dyn.A, H - (i1 - 1) - 1), dyn.B)), q)])
    IN Array([k \in 1..(H * u_dim) |->
          blocks[((k - 1) \div u_dim) + 1][((k - 1) % u_dim) + 1]])

\* scipy.optimize.linprog(-m, bounds): a maximiser of m.u over the box.  A
\* component with a zero coefficient is the solver's pick, tie.
LinprogX(mArg, tie) ==
    LET m == mArg
    IN Array([k \in 1..Len(m) |->
          IF m[k] > 0 THEN action_high[((k - 1) % u_dim) + 1]
          ELSE IF m[k] < 0 THEN action_low[((k - 1) % u_dim) + 1]
          ELSE IF tie = "low" THEN action_low[((k - 1) % u_dim) + 1]
          ELSE action_high[((k - 1) % u_dim) + 1]])

\* backup(state): the first action of the linear program, or an exception:
\* np.concatenate of the empty list [act_bounds] * horizon, and linprog
\* refusing a cost vector of NaN.
Backup(self, state) ==
    LET best == BackupLoop(UnsafePolys(self.polys), 1, state, BackupInit(state))
        dyn == GetMatrixAtPoint(self.env, state \o Zeros(u_dim), s_dim)
    IN IF best.raised \/ self.horizon <= 0 \/ ProjIsNaN(best.proj)
       THEN [raised |-> TRUE, u0 |-> None]
       ELSE [raised |-> FALSE,
             u0 |-> SubSeq(LinprogX(BackupM(dyn, self.horizon, best.proj), self.lpTie),
                           1, u_dim)]

(***************************************************************************)
(* ProjectionPolicy.solve, __call__, unsafe.                               *)
(***************************************************************************)
\* The loop of solve over the safe polytopes: best_u0 and best_score after
\* it.  It is a function of the horizon, the polytopes, the model, the
\* state and the action: its values are computed once.
BestTable ==
    [H \in Horizons |->
        [name \in PolyConfigs |->
            [e \in Envs |->
                [state \in States |->
                    [action \in PolicyActs |->
                        SolveLoop(CandTable[H][name][e][state][action], 1,
                                  BestInit)] @@ << >>]
                @@ << >>] @@ << >>] @@ << >>] @@ << >>

\* What solve computes for an action: the returned action or an exception,
\* with the path that produced it: backup is `not shielded` of the code,
\* tier and poly are those of the best candidate.
SolveAt(self, state, action) ==
    LET best == BestTable[self.horizon][self.polys][self.env][state][action]
        b == Backup(self, state)
    IN IF best.raised
       THEN [raised |-> TRUE, u0 |-> None, backup |-> FALSE, tier |-> 0, poly |-> 0]
       ELSE IF best.u0 = None
       THEN [raised |-> b.raised, u0 |-> b.u0, backup |-> TRUE, tier |-> 0, poly |-> 0]
       ELSE [raised |-> FALSE, u0 |-> best.u0, backup |-> FALSE,
             tier |-> best.tier, poly |-> best.poly]

\* SolveAt is a function of the object and its arguments: its values are
\* computed once.
SolveTable ==
    [H \in Horizons |->
        [name \in PolyConfigs |->
            [e \in Envs |->
                [tie \in Ties |->
                    [state \in States |->
                        [action \in PolicyActs |->
                            SolveAt([horizon |-> H, polys |-> name, env |-> e,
                                     lpTie |-> tie], state, action)] @@ << >>]
                    @@ << >>] @@ << >>] @@ << >>] @@ << >>] @@ << >>

\* self.solve of the object self, as a function of state and action.
SolveOf(self) == SolveTable[self.horizon][self.polys][self.env][self.lpTie]

\* solve(state, action): action defaults to zero.
Solve(solve, state, actionArg) ==
    solve[state][IF actionArg = None THEN Zeros(u_dim) ELSE actionArg]

\* A solve that stores the state it solved for, but only when it is called
\* without an action.
SaveSolvedOnRequest(pp, state, actionArg, res) ==
    IF res.raised THEN pp
    ELSE IF actionArg = None
    THEN [saved_state |-> state, saved_action |-> res.u0]
    ELSE [pp EXCEPT !.saved_action = res.u0]

\* What solve stores: self.saved_action = best_u0; saved_state is not
\* assigned.  pp is the pair of fields [saved_state, saved_action].
SaveSolved(pp, state, actionArg, res) ==
    IF res.raised THEN pp ELSE [pp EXCEPT !.saved_action = res.u0]

\* solve as a step: the fields after it, its result, the solves run.
SolveStep(solve, pp, state, actionArg) ==
    LET res == Solve(solve, state, actionArg)
    IN [pp |-> SaveSolved(pp, state, actionArg, res), res |-> res, nsolve |-> 1]

NoRes == [raised |-> FALSE, u0 |-> None, backup |-> FALSE, tier |-> 0, poly |-> 0]

\* __call__(state)
CallStep(solve, pp, state) ==
    IF pp.saved_state # None /\ AllClose(state, pp.saved_state)
    THEN [pp |-> pp, res |-> [NoRes EXCEPT !.u0 = pp.saved_action], nsolve |-> 0]
    ELSE SolveStep(solve, pp, state, None)

\* unsafe(state, action): not np.allclose(res, action)
UnsafeStep(solve, pp, state, action) ==
    LET r == SolveStep(solve, pp, state, action)
    IN [pp |-> r.pp, res |-> r.res, nsolve |-> r.nsolve,
        unsafe |-> IF r.res.raised THEN FALSE ELSE ~AllClose(r.res.u0, action)]

(***************************************************************************)
(* Shield.                                                                 *)
(***************************************************************************)
\* Shield.__call__ up to its return: the check of the proposal, then, for
\* a rejected proposal, the action request.  An exception of either leaves
\* the call without a return value.
Decision(solve, pp, state, proposed) ==
    LET chk == UnsafeStep(solve, pp, state, proposed)
        req == CallStep(solve, chk.pp, state)
    IN IF chk.res.raised
       THEN [pp |-> chk.pp, raised |-> TRUE, act |-> None, outcome |-> "none",
             nsolve |-> chk.nsolve, chk |-> chk.res, req |-> NoRes]
       ELSE IF chk.unsafe
       THEN [pp |-> req.pp, raised |-> req.res.raised,
             act |-> IF req.res.raised THEN None ELSE req.res.u0,
             outcome |-> IF req.res.raised THEN "none" ELSE "shield",
             nsolve |-> chk.nsolve + req.nsolve, chk |-> chk.res, req |-> req.res]
       ELSE [pp |-> chk.pp, raised |-> FALSE, act |-> proposed, outcome |-> "agent",
             nsolve |-> chk.nsolve, chk |-> chk.res, req |-> NoRes]

\* A Shield whose rejected path falls through to the accepting path's count.
CountFallThrough(c, outcome, dur) ==
    IF outcome = "shield"
    THEN [c EXCEPT !.shield_times = @ + 1, !.agent_times = @ + 1, !.total_time = @ + dur]
    ELSE IF outcome = "agent"
    THEN [c EXCEPT !.agent_times = @ + 1, !.total_time = @ + dur]
    ELSE c

\* The counters after a call: c = [shield_times, agent_times, total_time].
\* The rejected path returns before the clock is read again.
Count(c, outcome, dur) ==
    IF outcome = "shield" THEN [c EXCEPT !.shield_times = @ + 1]
    ELSE IF outcome = "agent"
    THEN [c EXCEPT !.agent_times = @ + 1, !.total_time = @ + dur]
    ELSE c

\* reset_count()
ResetCounts(c) == [shield_times |-> 0, agent_times |-> 0, total_time |-> 0]

\* report()
ReportOf(c) == <<c.shield_times, c.agent_times, c.total_time>>

\* The outcome of a returned decision in the terms of the design: the
\* proposal accepted, an action projected by the SafetyQP, or an action of
\* the BackupController.
OutcomeClass(d) ==
    IF d.outcome = "agent" THEN "agent"
    ELSE IF d.outcome = "shield" THEN (IF d.req.backup THEN "backup" ELSE "qp")
    ELSE "none"

Counters == [shield_times |-> shield_times, agent_times |-> agent_times,
             total_time |-> total_time]

Fields == [saved_state |-> saved_state, saved_action |-> saved_action]

NoTally == [agent |-> 0, qp |-> 0, backup |-> 0]

NoDecision == [raised |-> FALSE, act |-> None, outcome |-> "none", nsolve |-> 0,
               chk |-> NoRes, req |-> NoRes]

NoPrev == [raised |-> FALSE, act |-> None]

\* The entry of an operation.  repeat: the operation follows, with nothing
\* in between, an operation on the same inputs; prev is then what that
\* operation returned.
History(op, state, proposed, dur, d, rep, repeat) ==
    [op |-> op, state |-> state, proposed |-> proposed, dur |-> dur,
     raised |-> d.raised, act |-> d.act, outcome |-> d.outcome,
     nsolve |-> d.nsolve, chk |-> d.chk, req |-> d.req, report |-> rep,
     repeat |-> repeat,
     prev |-> IF repeat THEN [raised |-> last.raised, act |-> last.act] ELSE NoPrev]

Init ==
    /\ \E self \in Selves :
          /\ horizon = self.horizon
          /\ polys = self.polys
          /\ env = self.env
          /\ lpTie = self.lpTie
    /\ saved_state = None
    /\ saved_action = None
    /\ shield_times = 0
    /\ agent_times = 0
    /\ total_time = 0
    /\ last = History("init", None, None, 0, NoDecision, None, FALSE)
    /\ tally = NoTally
    /\ csc = NoCsc
    /\ memory = NoMemory

\* end - start: the clock is read a second time on the accepting path only,
\* and has then advanced by at least one unit; 0 is no reading.
Elapsed(outcome) == IF outcome = "agent" THEN 1..MaxDur ELSE {0}

\* Shield.__call__(state): the policy proposes, the shield decides; dur is
\* the time the call measures for itself.
Decide(state, proposed) ==
    /\ shield_times + agent_times < MaxCalls
    /\ \E d \in {Decision(SolveOf(Self), Fields, state, proposed)} :
          \E dur \in Elapsed(d.outcome), k \in {OutcomeClass(d)} :
             \E c \in {Count(Counters, d.outcome, dur)} :
                /\ saved_state' = d.pp.saved_state
                /\ saved_action' = d.pp.saved_action
                /\ tally' = IF k = "none" THEN tally ELSE [tally EXCEPT ![k] = @ + 1]
                /\ shield_times' = c.shield_times
                /\ agent_times' = c.agent_times
                /\ total_time' = c.total_time
                /\ last' = History("decide", state, proposed, dur, d, None,
                                   last.op = "decide" /\ last.state = state
                                      /\ last.proposed = proposed)
    /\ UNCHANGED <<config, memory, csc>>

\* Shield.report()
Report ==
    /\ last' = History("report", None, None, 0, NoDecision, ReportOf(Counters), FALSE)
    /\ UNCHANGED <<config, memory, saved_state, saved_action, shield_times, agent_times,
                   total_time, tally, csc>>

\* Shield.reset_count()
ResetCount ==
    /\ LET c == ResetCounts(Counters)
       IN /\ shield_times' = c.shield_times
          /\ agent_times' = c.agent_times
          /\ total_time' = c.total_time
    /\ last' = History("reset", None, None, 0, NoDecision, None, FALSE)
    /\ tally' = NoTally
    /\ UNCHANGED <<config, memory, saved_state, saved_action, csc>>

Next ==
    \/ \E state \in States, proposed \in PolicyActs : Decide(state, proposed)
    \/ Report
    \/ ResetCount

Spec == Init /\ [][Next]_vars

(***************************************************************************)
(* The safety layer used on its own: unsafe and __call__.                  *)
(***************************************************************************)
\* The result of unsafe as a history entry.
UnsafeEntry(r) ==
    [raised |-> r.res.raised,
     act |-> IF r.res.raised THEN None ELSE r.res.u0,
     outcome |-> IF r.res.raised THEN "none" ELSE IF r.unsafe THEN "unsafe" ELSE "safe",
     nsolve |-> r.nsolve, chk |-> r.res, req |-> NoRes]

\* The result of __call__ as a history entry.
CallEntry(r) ==
    [raised |-> r.res.raised,
     act |-> IF r.res.raised THEN None ELSE r.res.u0,
     outcome |-> "none", nsolve |-> r.nsolve, chk |-> NoRes, req |-> r.res]

\* ProjectionPolicy.unsafe(state, action)
Unsafe(state, action) ==
    /\ \E r \in {UnsafeStep(SolveOf(Self), Fields, state, action)} :
          /\ saved_state' = r.pp.saved_state
          /\ saved_action' = r.pp.saved_action
          /\ last' = History("unsafe", state, action, 0, UnsafeEntry(r), None, FALSE)
    /\ UNCHANGED <<config, memory, shield_times, agent_times, total_time, tally, csc>>

\* ProjectionPolicy.__call__(state)
Call(state) ==
    /\ \E r \in {CallStep(SolveOf(Self), Fields, state)} :
          /\ saved_state' = r.pp.saved_state
          /\ saved_action' = r.pp.saved_action
          /\ last' = History("call", state, None, 0, CallEntry(r), None,
                             last.op = "unsafe" /\ last.state = state)
    /\ UNCHANGED <<config, memory, shield_times, agent_times, total_time, tally, csc>>

NextPolicy ==
    \/ \E state \in States, action \in PolicyActs : Unsafe(state, action)
    \/ \E state \in States : Call(state)

SpecPolicy == Init /\ [][NextPolicy]_vars

(***************************************************************************)
(* Properties.                                                             *)
(***************************************************************************)
\* The decisions completed since the last reset.
Completed == tally.agent + tally.qp + tally.backup

\* C1: reset_count() leaves shield_times = agent_times = 0; a Shield call
\* that returns adds exactly 1 to exactly one of shield_times and
\* agent_times; so shield_times + agent_times is the number of decisions
\* completed since the last reset.
C1_OneCounterPerDecision ==
    [][/\ (last'.op = "reset") => (shield_times' = 0 /\ agent_times' = 0)
       /\ (last'.op = "decide" /\ ~last'.raised) =>
             \/ shield_times' = shield_times + 1 /\ agent_times' = agent_times
             \/ agent_times' = agent_times + 1 /\ shield_times' = shield_times
       /\ shield_times' + agent_times' = Completed']_vars

C1_Witness ==
    last.op = "decide" /\ shield_times = 1 /\ agent_times = 1

\* The tier-1 check of solve certifies the action at the state: the fixed
\* QP is feasible for a safe polytope that contains the state.
Tier1Certified(self, state, action) ==
    \E i \in 1..Len(SafePolys(self.polys)) :
        LET cand == CandTable[self.horizon][self.polys][self.env][state][action][i]
        IN cand.member /\ cand.produced /\ cand.tier = 1

Tier1Table ==
    [self \in Selves |->
        [state \in States |->
            [action \in PolicyActs |-> Tier1Certified(self, state, action)] @@ << >>]
        @@ << >>] @@ << >>

\* C2: a proposal that passes the tier-1 check of a safe polytope containing
\* the state is the action Shield returns, whatever the other polytopes and
\* their order give.
C2_CertifiedProposalReturned ==
    (last.op = "decide" /\ Tier1Table[Self][last.state][last.proposed]) =>
        /\ ~last.raised
        /\ last.act = last.proposed
        /\ last.outcome = "agent"
        /\ last.chk.tier = 1

\* The certificate comes from a polytope after the first of the list.
C2_Witness ==
    /\ last.op = "decide"
    /\ Tier1Table[Self][last.state][last.proposed]
    /\ last.act = last.proposed
    /\ last.chk.poly > 1

\* C3: the action Shield returns for a rejected proposal is the result of
\* the solve procedure run for that proposal at that state: the candidate
\* nearest the proposal.
C3_RejectedGetsProjectionOfProposal ==
    (last.op = "decide" /\ last.outcome = "shield") =>
        last.act = SolveOf(Self)[last.state][last.proposed].u0

\* C4: Shield returns the proposal unmodified, counted in agent_times, only
\* if the tier-1 check certified it for a safe polytope containing the state.
C4_AcceptedOnlyIfCertified ==
    (last.op = "decide" /\ last.outcome = "agent") =>
        Tier1Table[Self][last.state][last.proposed]

\* The disturbances w with |w| <= eps component-wise, on the lattice.
Disturbances(eps) ==
    LET m == CHOOSE v \in {eps[i] : i \in 1..Len(eps)} :
                 \A i \in 1..Len(eps) : eps[i] <= v
    IN {w \in [1..Len(eps) -> -m..m] : \A i \in 1..Len(eps) : Abs(w[i]) <= eps[i]}

\* x_t of the linear model x_{t+1} = A.x_t + B.u_t + c + w_t from x_0 = x0,
\* under the actions seq = [u_0; ..; u_{H-1}] and the disturbances w_1..w_t.
RECURSIVE StateAt(_, _, _, _, _)
StateAt(dyn, x0, seq, w, t) ==
    IF t = 0 THEN x0
    ELSE LET prev == StateAt(dyn, x0, seq, w, t - 1)
             u == SubSeq(seq, (t - 1) * u_dim + 1, t * u_dim)
         IN VecAdd(VecAdd(VecAdd(MatVec(dyn.A, prev), MatVec(dyn.B, u)), dyn.c), w[t])

\* The candidate of safe polytope i in solve(last.state, last.proposed).
LastCandidate(i) ==
    CandTable[horizon][polys][env][last.state][last.proposed][i]

\* C5: when the SafetyQP produces an action for a safe polytope containing
\* the state, the linear model run H steps with the solved sequence stays in
\* that polytope at every step, for every disturbance within eps.
C5_RobustContainment ==
    last.op = "unsafe" =>
        \A i \in 1..Len(safe_polys) :
            LET cand == LastCandidate(i)
                dyn == GetMatrixAtPoint(env, last.state \o last.proposed, s_dim)
            IN cand.produced =>
                  \A w \in [1..horizon -> Disturbances(dyn.eps)], t \in 1..horizon :
                      InPoly(safe_polys[i], StateAt(dyn, last.state, cand.seq, w, t))

\* A tier-2 projection under a model with a disturbance.
C5_Witness ==
    /\ last.op = "unsafe"
    /\ horizon = 2
    /\ ~last.raised
    /\ last.chk.tier = 2
    /\ GetMatrixAtPoint(env, last.state \o last.proposed, s_dim).eps # Zeros(s_dim)
    /\ LastCandidate(last.chk.poly).produced

\* No safe polytope produces a candidate for the action at the state: each
\* is skipped by the membership test or infeasible in both tiers.
NoCandidateAt(self, state, action) ==
    \A i \in 1..Len(SafePolys(self.polys)) :
        LET cand == CandTable[self.horizon][self.polys][self.env][state][action][i]
        IN ~cand.produced /\ ~cand.raised

\* C6: solve returns the action of the BackupController exactly when no safe
\* polytope produced a candidate, and then it returns an action: it does
\* not raise (for a horizon of at least 1).
C6_BackupIffNoCandidate ==
    (last.op = "unsafe" /\ horizon >= 1) =>
        LET none == NoCandidateAt(Self, last.state, last.proposed)
        IN /\ last.chk.backup <=> none
           /\ none => (~last.raised /\ last.act # None)

InBounds(u) ==
    /\ Len(u) = u_dim
    /\ \A i \in 1..u_dim : action_low[i] <= u[i] /\ u[i] <= action_high[i]

\* C7: the BackupController returns, for every state, an action within
\* [action_low, action_high], without raising (for a horizon of at least 1).
C7_BackupAlwaysReturnsBoundedAction ==
    (last.op = "call" /\ horizon >= 1) =>
        LET b == Backup(Self, last.state)
        IN ~b.raised /\ InBounds(b.u0)

\* C8: an action request that follows a safety check of the same state
\* returns the action of that check without another solve; the memoized
\* action is used only for the state it was solved for.
C8_RequestAfterCheckUsesMemo ==
    /\ (last.op = "call" /\ last.repeat /\ ~last.prev.raised) =>
          (last.nsolve = 0 /\ ~last.raised /\ last.act = last.prev.act)
    /\ (last.op = "call" /\ last.nsolve = 0) =>
          (saved_state # None /\ AllClose(last.state, saved_state))

\* C9: two Shield calls in a row with the same state and the same proposal
\* of the policy return the same action.
C9_SameInputsSameAction ==
    (last.op = "decide" /\ last.repeat) =>
        (last.raised = last.prev.raised /\ last.act = last.prev.act)

\* Two rejected decisions in a row on the same inputs.
C9_Witness ==
    /\ last.op = "decide"
    /\ last.repeat
    /\ last.outcome = "shield"
    /\ shield_times = 2

\* C10: the counters tell the three outcomes apart: shield_times is the
\* number of actions projected by the SafetyQP and agent_times the number
\* of proposals accepted, so that the actions of the BackupController are
\* counted in neither and can be read apart from both.
C10_OutcomesCountedApart ==
    shield_times = tally.qp /\ agent_times = tally.agent

\* C11: every Shield call that returns, the proposal accepted or replaced,
\* adds its duration to total_time: total_time grows by at least one unit,
\* and by the time the call measured where it measured one; report()
\* returns (shield_times, agent_times, total_time) and changes none of them.
C11_TotalTimeAccumulates ==
    [][/\ (last'.op = "decide" /\ ~last'.raised) =>
             /\ total_time' >= total_time + 1
             /\ last'.dur # 0 => total_time' = total_time + last'.dur
       /\ (last'.op = "report") =>
             /\ last'.report = <<shield_times, agent_times, total_time>>
             /\ UNCHANGED <<shield_times, agent_times, total_time>>]_vars

\* The tier-2 QP of solve ran for a polytope: the state is in it and the
\* fixed QP was not feasible.
Tier2Ran(cand) == cand.member /\ ~cand.raised /\ cand.tier # 1

\* C12: the check of the proposal in a Shield call runs the tier-1 check
\* only: before the proposal is accepted or rejected, no tier-2 QP and no
\* computation of the BackupController is run.
C12_CheckRunsTierOneOnly ==
    last.op = "decide" =>
        /\ ~last.chk.backup
        /\ \A i \in 1..Len(safe_polys) : ~Tier2Ran(LastCandidate(i))

\* The tier-1 QP of safe polytope i failed in solve(last.state,
\* last.proposed): no optimal solution, by status or by an exception of the
\* solver, which the code turns into the status 'infeasible'.
Tier1Failed(i) ==
    LET poly == safe_polys[i]
        dyn == GetMatrixAtPoint(env, last.state \o last.proposed, s_dim)
    IN /\ InPoly(poly, last.state)
       /\ ~FixedSetupRaises(horizon)
       /\ ~FixedFeasible(action_space, AssembleM(poly, dyn, horizon),
                         AssembleBias(action_space, poly, dyn, horizon, last.state),
                         last.proposed, horizon)

\* The tier-2 QP of safe polytope i failed as well.
Tier2Failed(i) ==
    LET poly == safe_polys[i]
        dyn == GetMatrixAtPoint(env, last.state \o last.proposed, s_dim)
    IN /\ Tier1Failed(i)
       /\ FullSolutions(action_space, AssembleM(poly, dyn, horizon),
                        AssembleBias(action_space, poly, dyn, horizon, last.state), horizon) = {}

\* C13: in solve, a failure of the tier-1 QP of a polytope leads to the
\* tier-2 QP of that polytope; a failure of tier 2 leads to the next
\* polytopes, whose candidates still count; failure for every polytope leads
\* to the BackupController; and an exception that leaves solve after such a
\* failure is never the solver's: it is the BackupController's.
C13_SolverFailuresFallBack ==
    last.op = "unsafe" =>
        /\ \A i \in 1..Len(safe_polys) :
              Tier1Failed(i) => Tier2Ran(LastCandidate(i))
        /\ \A i \in 1..Len(safe_polys) :
              Tier2Failed(i) =>
                 /\ ~LastCandidate(i).produced
                 /\ \A j \in (i + 1)..Len(safe_polys) :
                       LastCandidate(j).produced =>
                          (~last.raised /\ ~last.chk.backup /\ last.chk.poly # 0)
        /\ ((\E i \in 1..Len(safe_polys) : Tier1Failed(i))
              /\ \A i \in 1..Len(safe_polys) : ~LastCandidate(i).produced) =>
                 last.chk.backup
        /\ (last.raised /\ \E i \in 1..Len(safe_polys) : Tier1Failed(i)) =>
              last.chk.backup

\* The first polytope fails in both tiers and a later one gives the action.
C13_Witness ==
    /\ last.op = "unsafe"
    /\ Tier2Failed(1)
    /\ ~last.raised
    /\ last.chk.poly > 1

\* C14: a shield configured with the horizon 0 returns no action: every
\* decision requested from it ends in an exception, for a state inside a
\* safe polytope and for a state outside all of them, and nothing is
\* counted or saved.
C14_HorizonZeroRejected ==
    horizon = 0 =>
        /\ last.op = "decide" =>
              (last.raised /\ last.act = None /\ last.outcome = "none")
        /\ Completed = 0
        /\ shield_times = 0 /\ agent_times = 0
        /\ saved_action = None

\* The decision fails for a state that lies in no safe polytope.
C14_Witness ==
    /\ horizon = 0
    /\ last.op = "decide"
    /\ last.raised
    /\ \A i \in 1..Len(safe_polys) : ~InPoly(safe_polys[i], last.state)

\* C15: when a safe polytope produced a candidate, solve returns the
\* candidate of the least score, and among the polytopes of that score the
\* candidate of the first in the list.
C15_MinimumScoreFirstWins ==
    (last.op = "unsafe" /\ \E i \in 1..Len(safe_polys) : LastCandidate(i).produced) =>
        \E i \in 1..Len(safe_polys) :
            /\ LastCandidate(i).produced
            /\ \A j \in 1..Len(safe_polys) :
                  LastCandidate(j).produced =>
                     /\ LastCandidate(i).score <= LastCandidate(j).score
                     /\ (LastCandidate(j).score = LastCandidate(i).score) => i <= j
            /\ ~last.raised
            /\ last.chk.poly = i
            /\ last.act = LastCandidate(i).u0

\* Two polytopes tie on the least score with different actions, and the
\* action of the earlier one is returned.
C15_Witness ==
    /\ last.op = "unsafe"
    /\ ~last.raised
    /\ \E i \in 1..Len(safe_polys), j \in 1..Len(safe_polys) :
          /\ i < j
          /\ last.chk.poly = i
          /\ LastCandidate(i).produced /\ LastCandidate(j).produced
          /\ LastCandidate(i).score = LastCandidate(j).score
          /\ LastCandidate(i).u0 # LastCandidate(j).u0
          /\ last.act = LastCandidate(i).u0

\* The one-step reachability condition of a polytope [P | b] under the
\* model x1 = A.x0 + B.u0 + c + w, |w| <= eps, written M1.u0 + bias1 <= 0.
OneStepM(poly, dyn) == MatMul(PolyP(poly), dyn.B)

OneStepBias(poly, dyn, x0) ==
    LET P == PolyP(poly)
    IN VecAdd(VecAdd(VecAdd(MatVec(P, MatVec(dyn.A, x0)), MatVec(P, dyn.c)),
                     PolyB(poly)),
              MatVec(AbsMat(P), dyn.eps))

\* P.(A.x0 + B.u0 + c) + b + |P|.eps <= 0, row by row.
OneStepSafe(poly, dyn, x0, u0) ==
    LET P == PolyP(poly)
        b == PolyB(poly)
        x1 == VecAdd(VecAdd(MatVec(dyn.A, x0), MatVec(dyn.B, u0)), dyn.c)
    IN \A r \in 1..Len(P) :
          Dot(P[r], x1) + b[r] + Dot(AbsMat(P)[r], dyn.eps) <= 0

\* C16: with the horizon 1, the safety rows that solve assembles for a safe
\* polytope containing the state are the one-step reachability condition:
\* the block of M is P.B, the bias is P.A.x0 + P.c + b + |P|.eps, and an
\* action satisfies the rows exactly when it satisfies the condition.
C16_HorizonOneIsOneStep ==
    (last.op = "unsafe" /\ horizon = 1) =>
        \A i \in 1..Len(safe_polys) :
            LET poly == safe_polys[i]
                dyn == GetMatrixAtPoint(env, last.state \o last.proposed, s_dim)
                M == SafetyM(poly, dyn, 1)
                bias == SafetyBias(poly, dyn, 1, last.state)
            IN InPoly(poly, last.state) =>
                  /\ M = OneStepM(poly, dyn)
                  /\ bias = OneStepBias(poly, dyn, last.state)
                  /\ \A u \in BoxSeqs(action_space, 1) :
                        Satisfies(M, bias, u) <=> OneStepSafe(poly, dyn, last.state, u)

\* A polytope of several rows, a model with a constant term and a
\* disturbance, and an action that the condition excludes.
C16_Witness ==
    /\ last.op = "unsafe"
    /\ horizon = 1
    /\ polys = "band"
    /\ InPoly(PolyBand, last.state)
    /\ LET dyn == GetMatrixAtPoint(env, last.state \o last.proposed, s_dim)
       IN /\ dyn.c # Zeros(s_dim)
          /\ dyn.eps # Zeros(s_dim)
          /\ \E u \in BoxSeqs(action_space, 1) : OneStepSafe(PolyBand, dyn, last.state, u)
          /\ \E u \in BoxSeqs(action_space, 1) : ~OneStepSafe(PolyBand, dyn, last.state, u)

(***************************************************************************)
(* solve on one safe polytope, with the action space, the polytope, the    *)
(* model and the horizon given as values.                                  *)
(***************************************************************************)
\* A ProjectionPolicy with the action bounds [-10, 10], the one safe
\* polytope x[0] <= 5, no unsafe polytope and the horizon 2, whose
\* environment has the model A = I, B = [1; 0], c = 0, eps = 0 everywhere.
Scenario ==
    [space |-> [low |-> <<-10>>, high |-> <<10>>],
     safe_polys |-> << << <<1, 0, -5>> >> >>,
     unsafe_polys |-> << >>,
     horizon |-> 2,
     dyn |-> DynShift]

\* The states and the actions presented to it.
ScenarioStates == {x \in [1..s_dim -> 0..5] : x[2] <= 1}

ScenarioActs == [1..u_dim -> (Scenario.space.low[1])..(Scenario.space.high[1])]

\* solve(state, action) of that policy: the iteration of each polytope, the
\* best candidate, and backup when there is none; with unsafe_polys empty,
\* backup ends in the exception of linprog.
ScenarioSolve(state, action) ==
    LET cands == Array([i \in 1..Len(Scenario.safe_polys) |->
                     PolyCandidate(Scenario.space, Scenario.safe_polys[i], Scenario.dyn,
                                   Scenario.horizon, state, action)])
        best == SolveLoop(cands, 1, BestInit)
    IN [cands |-> cands,
        raised |-> best.raised \/ best.u0 = None,
        backup |-> ~best.raised /\ best.u0 = None,
        u0 |-> IF best.raised THEN None ELSE best.u0,
        score |-> best.score, tier |-> best.tier, poly |-> best.poly]

\* ScenarioSolve is a function of its arguments: its values are computed once.
ScenarioTable ==
    [state \in ScenarioStates |->
        [action \in ScenarioActs |-> ScenarioSolve(state, action)] @@ << >>] @@ << >>

InitScenario ==
    /\ horizon = Scenario.horizon
    /\ polys = "scenario"
    /\ env = "shift"
    /\ lpTie = "low"
    /\ saved_state = None
    /\ saved_action = None
    /\ shield_times = 0
    /\ agent_times = 0
    /\ total_time = 0
    /\ last = [op |-> "init"]
    /\ tally = NoTally
    /\ csc = NoCsc
    /\ memory = NoMemory

\* ProjectionPolicy.solve(state, action)
SolveScenario(state, action) ==
    /\ \E r \in {ScenarioTable[state][action]} :
          /\ saved_action' = IF r.raised THEN saved_action ELSE r.u0
          /\ last' = [op |-> "solve", state |-> state, proposed |-> action, res |-> r]
    /\ UNCHANGED <<config, memory, saved_state, shield_times, agent_times, total_time, tally,
                   csc>>

NextScenario ==
    \E state \in ScenarioStates, action \in ScenarioActs : SolveScenario(state, action)

SpecScenario == InitScenario /\ [][NextScenario]_vars

\* C17: in the scenario, solve at x0 = [4, 0] for the proposal u0 = 10 finds
\* tier 1 infeasible, and tier 2 returns a first action u0 <= 1 with a
\* score above 0.
C17_ScenarioProjectsToBoundary ==
    (last.op = "solve" /\ last.state = <<4, 0>> /\ last.proposed = <<10>>) =>
        /\ ~last.res.raised
        /\ last.res.cands[1].member
        /\ last.res.tier = 2
        /\ last.res.u0[1] <= 1
        /\ last.res.score > 0
        /\ saved_action = last.res.u0

C17_Witness ==
    /\ last.op = "solve"
    /\ last.state = <<4, 0>>
    /\ last.proposed = <<10>>
    /\ last.res.tier = 2
    /\ last.res.u0 = <<1>>

(***************************************************************************)
(* CSCShield: a policy re-sampled under a cost critic.                     *)
(***************************************************************************)
\* The values of the cost critic, and the thresholds a CSCShield is built
\* with: one and two steps under the largest score.
Scores == 0..MaxScore

Thresholds == {MaxScore - 2, MaxScore - 1}

\* while ... and iters < 100
RetryBudget == 100

\* A sampled action is known by the number of the policy query that gave
\* it; 0 is no action.  first[s] is the first query of this call whose
\* action scored s, 0 when none did.
CscIdle(threshold) ==
    [pc |-> "idle", threshold |-> threshold, iters |-> 0, action |-> 0, score |-> 0,
     best_action |-> 0, best_score |-> 0, queries |-> 0,
     first |-> [s \in Scores |-> 0], ret |-> 0]

\* A loop that keeps the action sampled last.
CscKeepLast(c, action, score) ==
    [c EXCEPT !.best_score = score, !.best_action = action]

\* if score < best_score: best_score = score; best_action = action
CscKeep(c, action, score) ==
    IF score < c.best_score
    THEN [c EXCEPT !.best_score = score, !.best_action = action]
    ELSE c

\* A loop that goes on whatever the score is, up to the budget.
CscContinuesAlways(c) == c.iters < RetryBudget

\* while score > self.threshold and iters < 100
CscContinues(c) == c.score > c.threshold /\ c.iters < RetryBudget

InitCSC ==
    /\ horizon = 0
    /\ polys = "none"
    /\ env = "none"
    /\ lpTie = "low"
    /\ saved_state = None
    /\ saved_action = None
    /\ shield_times = 0
    /\ agent_times = 0
    /\ total_time = 0
    /\ last = [op |-> "init"]
    /\ tally = NoTally
    /\ \E threshold \in Thresholds : csc = CscIdle(threshold)
    /\ memory = NoMemory

\* CSCShield.__call__ up to the test of the loop: the first query of the
\* policy, whose action scores s.
CscCall(s) ==
    /\ csc.pc \in {"idle", "done"}
    /\ csc' = [pc |-> "loop", threshold |-> csc.threshold, iters |-> 0, action |-> 1,
               score |-> s, best_action |-> 1, best_score |-> s, queries |-> 1,
               first |-> [x \in Scores |-> IF x = s THEN 1 ELSE 0], ret |-> 0]
    /\ UNCHANGED <<config, memory, saved_state, saved_action, shield_times, agent_times,
                   total_time, last, tally>>

\* One iteration of the loop: the policy is queried again, its action
\* scores s.
CscResample(s) ==
    /\ csc.pc = "loop"
    /\ CscContinues(csc)
    /\ \E k \in {CscKeep(csc, csc.queries + 1, s)} :
          csc' = [k EXCEPT !.action = csc.queries + 1,
                           !.score = s,
                           !.iters = @ + 1,
                           !.queries = @ + 1,
                           !.first = IF csc.first[s] = 0
                                     THEN [csc.first EXCEPT ![s] = csc.queries + 1]
                                     ELSE csc.first]
    /\ UNCHANGED <<config, memory, saved_state, saved_action, shield_times, agent_times,
                   total_time, last, tally>>

\* return best_action
CscReturn ==
    /\ csc.pc = "loop"
    /\ ~CscContinues(csc)
    /\ csc' = [csc EXCEPT !.pc = "done", !.ret = csc.best_action]
    /\ UNCHANGED <<config, memory, saved_state, saved_action, shield_times, agent_times,
                   total_time, last, tally>>

NextCSC ==
    \/ \E s \in Scores : CscCall(s)
    \/ \E s \in Scores : CscResample(s)
    \/ CscReturn

SpecCSC == InitCSC /\ [][NextCSC]_vars

\* C18: a call of CSCShield queries the policy at most 101 times, 100 of
\* them re-samples; it re-samples only while the score of the action
\* sampled last is above the threshold, and once that score is not above
\* the threshold the next step is the return.
C18_BoundedResampling ==
    [][/\ csc'.iters <= RetryBudget
       /\ csc'.queries = csc'.iters + 1
       /\ csc'.queries <= RetryBudget + 1
       /\ (csc.pc = "loop" /\ csc'.queries > csc.queries) => csc.score > csc.threshold
       /\ (csc.pc = "loop" /\ csc.score <= csc.threshold) =>
             (csc'.pc = "done" /\ csc'.queries = csc.queries)
       /\ (csc.pc = "loop" /\ csc.iters = RetryBudget) =>
             (csc'.pc = "done" /\ csc'.queries = csc.queries)]_vars

\* The call returns after the whole budget, every score above the threshold.
C18_Witness ==
    /\ csc.pc = "done"
    /\ csc.queries = RetryBudget + 1
    /\ csc.score > csc.threshold

\* The action of the least score among those sampled in this call, the
\* first sampled among equals.
CscFirstMin(c) ==
    LET sampled == {s \in Scores : c.first[s] # 0}
        least == CHOOSE s \in sampled : \A t \in sampled : s <= t
    IN c.first[least]

\* C19: CSCShield returns the action of the least score among the actions
\* sampled in the call, the first sampled among equals; when the loop
\* stopped on a score not above the threshold, it returns the action
\* sampled last, the one with that score.
C19_ReturnsFirstMinimum ==
    csc.pc = "done" =>
        /\ csc.ret = CscFirstMin(csc)
        /\ csc.score <= csc.threshold =>
              (csc.ret = csc.queries /\ csc.best_score = csc.score)

\* The budget is used up; the least score was sampled first by the second
\* query and again by the last one, and the action of the second query is
\* returned.
C19_Witness ==
    /\ csc.pc = "done"
    /\ csc.queries = RetryBudget + 1
    /\ csc.score = csc.best_score
    /\ csc.first[csc.best_score] = 2
    /\ csc.ret = 2

\* C20: for every horizon of at least 1, the horizon 1 included, solve on a
\* state inside a safe polytope completes the tier-1 check and returns an
\* action: no exception leaves it.
C20_EveryValidHorizonSolves ==
    (/\ last.op = "unsafe"
     /\ horizon >= 1
     /\ \E i \in 1..Len(safe_polys) : InPoly(safe_polys[i], last.state)) =>
        (~last.raised /\ last.act # None)

\* C21: a safe polytope that the state does not satisfy gives no candidate
\* and no QP is solved for it; when the state satisfies no safe polytope,
\* solve returns the action of the BackupController (for a horizon of at
\* least 1).
C21_NonMemberSkipped ==
    last.op = "unsafe" =>
        /\ \A i \in 1..Len(safe_polys) :
              ~InPoly(safe_polys[i], last.state) =>
                 /\ ~LastCandidate(i).produced
                 /\ ~LastCandidate(i).member
                 /\ ~LastCandidate(i).raised
                 /\ ~Tier2Ran(LastCandidate(i))
        /\ (horizon >= 1
              /\ \A i \in 1..Len(safe_polys) : ~InPoly(safe_polys[i], last.state)) =>
                 /\ last.chk.backup
                 /\ ~last.raised
                 /\ last.act = Backup(Self, last.state).u0

\* C22: for a safe polytope [P | b] containing the state and every step j
\* in 1..H, the matrices built by solve satisfy F[j][j] = P, h[j][j] = b,
\* and for t < j: F[j][t] = F[j][t+1].A, G[j][t] = F[j][t+1].B,
\* h[j][t] = F[j][t+1].c + h[j][t+1] + |F[j][t+1]|.eps; so that
\* F[j][t] = P.A^(j-t).
C22_PropagationMatrices ==
    last.op = "unsafe" =>
        \A i \in 1..Len(safe_polys) :
            LET poly == safe_polys[i]
                dyn == GetMatrixAtPoint(env, last.state \o last.proposed, s_dim)
            IN InPoly(poly, last.state) =>
                  \A j \in 1..horizon :
                     /\ FMat(poly, dyn, j, j) = PolyP(poly)
                     /\ HVec(poly, dyn, j, j) = PolyB(poly)
                     /\ \A t \in 0..(j - 1) :
                           /\ FMat(poly, dyn, j, t) = MatMul(FMat(poly, dyn, j, t + 1), dyn.A)
                           /\ FMat(poly, dyn, j, t) = MatMul(PolyP(poly), MatPow(dyn.A, j - t))
                           /\ GMat(poly, dyn, j, t) = MatMul(FMat(poly, dyn, j, t + 1), dyn.B)
                           /\ HVec(poly, dyn, j, t) =
                                 VecAdd(VecAdd(MatVec(FMat(poly, dyn, j, t + 1), dyn.c),
                                               HVec(poly, dyn, j, t + 1)),
                                        MatVec(AbsMat(FMat(poly, dyn, j, t + 1)), dyn.eps))

\* Two steps under a model whose A is not the identity and whose eps is
\* not zero, for a polytope that A changes the rows of.
C22_Witness ==
    /\ last.op = "unsafe"
    /\ horizon = 2
    /\ LET dyn == GetMatrixAtPoint(env, last.state \o last.proposed, s_dim)
       IN /\ dyn.A # Eye(s_dim)
          /\ dyn.eps # Zeros(s_dim)
          /\ \E i \in 1..Len(safe_polys) :
                /\ InPoly(safe_polys[i], last.state)
                /\ FMat(safe_polys[i], dyn, 2, 0) # PolyP(safe_polys[i])

\* The coefficient block on u_t (0 <= t < H) of row r of M.
BlockOf(M, r, t) == SubSeq(M[r], t * u_dim + 1, (t + 1) * u_dim)

\* The system solve assembles for safe polytope i at the last inputs.
LastM(i) ==
    AssembleM(safe_polys[i],
              GetMatrixAtPoint(env, last.state \o last.proposed, s_dim), horizon)

\* C23: in the assembled system M.u + bias <= 0 the safety rows of step j
\* (1 <= j <= H) have the coefficient block P.A^(j-1-t).B on u_t for t < j
\* and a zero block for every t >= j, and M has exactly H.rows(P) safety
\* rows followed by 2.H.u_dim action-bound rows (one coefficient 1 or -1
\* each).
C23_SafetyRowsAreCausal ==
    (last.op = "unsafe" /\ horizon >= 1) =>
        \A i \in 1..Len(safe_polys) :
            InPoly(safe_polys[i], last.state) =>
                \E M \in {LastM(i)} :
                \E dyn \in {GetMatrixAtPoint(env, last.state \o last.proposed, s_dim)} :
                \E step \in {Len(safe_polys[i])} :
                    /\ Len(M) = horizon * step + 2 * horizon * u_dim
                    /\ \A r \in 1..Len(M) : Len(M[r]) = horizon * u_dim
                    /\ \A j \in 1..horizon : \A k \in 1..step : \A t \in 0..(horizon - 1) :
                          BlockOf(M, (j - 1) * step + k, t) =
                             IF t < j
                             THEN MatMul(MatMul(PolyP(safe_polys[i]),
                                                MatPow(dyn.A, j - 1 - t)), dyn.B)[k]
                             ELSE Zeros(u_dim)
                    /\ \A r \in (horizon * step + 1)..Len(M) :
                          \E k \in 1..(horizon * u_dim) :
                             /\ M[r][k] \in {1, -1}
                             /\ \A k2 \in 1..(horizon * u_dim) : k2 # k => M[r][k2] = 0

\* Two steps under the integrator model: the rows of step 1 do not involve
\* u_1, and the rows of step 2 weigh u_0 by P.A.B, which differs from P.B.
C23_Witness ==
    /\ last.op = "unsafe"
    /\ horizon = 2
    /\ \E i \in 1..Len(safe_polys) :
          /\ InPoly(safe_polys[i], last.state)
          /\ \E M \in {LastM(i)} : \E step \in {Len(safe_polys[i])} :
                /\ BlockOf(M, 1, 1) = Zeros(u_dim)
                /\ BlockOf(M, step + 1, 0) # Zeros(u_dim)
                /\ BlockOf(M, step + 1, 0) # BlockOf(M, step + 1, 1)

\* The bias solve assembles for safe polytope i at the last inputs.
LastBias(i) ==
    AssembleBias(action_space, safe_polys[i],
                 GetMatrixAtPoint(env, last.state \o last.proposed, s_dim),
                 horizon, last.state)

\* The full system of polytope i has a solution whose first block is u0.
FullHasSolutionAt(i, u0) ==
    \E M \in {LastM(i)} : \E bias \in {LastBias(i)} :
        \E x \in BoxSeqs(action_space, horizon - 1) : Satisfies(M, bias, u0 \o x)

\* Tier 1 of polytope i passed: fixed_feasible.
Tier1Passed(i) == LastCandidate(i).produced /\ LastCandidate(i).tier = 1

\* C24: for a safe polytope containing the state, tier 1 (the system with
\* u0 = u0_proposed substituted) is feasible exactly when the full system
\* M.u + bias <= 0 has a solution whose first block is the proposed action;
\* a proposed action outside [action_low, action_high] never passes tier 1.
C24_Tier1IsFullSystemAtProposal ==
    (last.op = "unsafe" /\ horizon >= 1) =>
        \A i \in 1..Len(safe_polys) :
            InPoly(safe_polys[i], last.state) =>
                /\ Tier1Passed(i) <=> FullHasSolutionAt(i, last.proposed)
                /\ ~InBounds(last.proposed) => ~Tier1Passed(i)

\* The solutions of the full system of the scenario at the last state.
ScenarioFullSolutions ==
    FullSolutions(Scenario.space,
                  AssembleM(Scenario.safe_polys[1], Scenario.dyn, Scenario.horizon),
                  AssembleBias(Scenario.space, Scenario.safe_polys[1], Scenario.dyn,
                               Scenario.horizon, last.state),
                  Scenario.horizon)

\* ||u||^2 + ||u0 - action||^2, the regulariser and the penalty weighted
\* alike.
EqualWeightObj(u, action) ==
    NormSq(u) + NormSq(VecAdd(SubSeq(u, 1, u_dim), VecNeg(action)))

\* 1e-4 ||u||^2 + ||u0 - action||^2, scaled by 1e4.
WeightedObj(u, action) ==
    NormSq(u) + 10000 * NormSq(VecAdd(SubSeq(u, 1, u_dim), VecNeg(action)))

LastBestProj == BackupLoop(unsafe_polys, 1, last.state, BackupInit(last.state)).proj

\* The coefficient of component k of u_t in the cost of backup at the last
\* state, for the given best_proj: -(best_proj . column k of A^(H-t-1).B).
LastCost(best_proj, t, k) ==
    LET dyn == GetMatrixAtPoint(env, last.state \o Zeros(u_dim), s_dim)
        AB == MatMul(MatPow(dyn.A, horizon - t - 1), dyn.B)
    IN -Dot(best_proj, Array([r \in 1..s_dim |-> AB[r][k]]))

\* m: the coefficients of u_0, .., u_{H-1} in turn.
LastCostVec(best_proj) ==
    Array([n \in 1..(horizon * u_dim) |->
              LastCost(best_proj, (n - 1) \div u_dim, ((n - 1) % u_dim) + 1)])

\* C26: when the BackupController returns, it returns only the first block
\* u0 of a maximiser of m.u over the box of the action bounds repeated H
\* times, where block t of m is (A^(H-t-1).B)^T.(-best_proj); so every
\* component of the returned action with a positive coefficient in m is
\* action_high and every one with a negative coefficient is action_low.
C26_BackupMaximisesDisplacement ==
    last.op = "call" =>
        \E b \in {Backup(Self, last.state)} :
            ~b.raised =>
                \E m \in {LastCostVec(LastBestProj)} :
                    /\ Len(b.u0) = u_dim
                    /\ \E x \in BoxSeqs(action_space, horizon - 1) :
                          \E best \in {Dot(m, b.u0 \o x)} :
                             \A v \in BoxSeqs(action_space, horizon) : Dot(m, v) <= best
                    /\ \A k \in 1..u_dim :
                          /\ m[k] > 0 => b.u0[k] = action_high[k]
                          /\ m[k] < 0 => b.u0[k] = action_low[k]

\* Backup returned over two steps under a model that weighs u_0 and u_1
\* differently, and sent the first action to a bound.
C26_Witness ==
    /\ last.op = "call"
    /\ horizon = 2
    /\ ~Backup(Self, last.state).raised
    /\ \E m \in {LastCostVec(LastBestProj)} : m[1] # 0 /\ m[1] # m[2]
    /\ Backup(Self, last.state).u0 \in {action_low, action_high}

\* The minimum-norm displacement of unsafe polytope i at the last state, and
\* its norm (squared).
LastDisplacement(i) == ArgMin(BackupFeasible(unsafe_polys[i], last.state), NormSq)

LastDistance(i) == NormSq(LastDisplacement(i))

\* The first unsafe polytope, in list order, whose minimum-norm
\* displacement is smallest.
NearestUnsafe ==
    CHOOSE i \in 1..Len(unsafe_polys) :
        /\ \A k \in 1..Len(unsafe_polys) : LastDistance(i) <= LastDistance(k)
        /\ \A k \in 1..(i - 1) : LastDistance(k) > LastDistance(i)

\* best_proj is, up to its length, the displacement of the nearest unsafe
\* polytope.
SelectsNearest == LastBestProj = LastDisplacement(NearestUnsafe)

\* C27: best_proj used by the BackupController is the unit-normalised
\* minimum-norm displacement of the unsafe polytope whose minimum-norm
\* displacement is smallest over all unsafe polytopes, the first such
\* polytope in list order on ties: the displacement of that polytope, and
\* one that has a unit vector along it.
C27_BestProjIsNearestUnit ==
    (last.op = "call" /\ Len(unsafe_polys) >= 1) =>
        /\ SelectsNearest
        /\ ~ProjIsNaN(LastBestProj)

Capacities == 1..MaxCap

\* The elements of a sequence.
Range(sq) == {sq[i] : i \in 1..Len(sq)}

\* random.sample(range(n), k): the lists of k distinct indices below n.
RandomSample(n, k) ==
    {ix \in [1..k -> 0..(n - 1)] : \A a, b \in 1..k : a # b => ix[a] # ix[b]}

\* ReplayMemory.__init__(capacity, observation_space, seed)
NewMemory(capacity) ==
    [capacity |-> capacity, buffer |-> << >>, position |-> 0,
     op |-> "init", raised |-> FALSE, pushes |-> 0, item |-> 0,
     prev |-> << >>, indices |-> << >>, remove |-> FALSE, batch |-> << >>]

\* push(state, action, reward, next_state, done, cost): the buffer and the
\* position after it; writing past the end of the list is an IndexError.
PushTo(mem, item) ==
    LET appended == IF Len(mem.buffer) < mem.capacity
                    THEN Append(mem.buffer, 0) ELSE mem.buffer
    IN IF mem.position + 1 > Len(appended)
       THEN [buffer |-> appended, position |-> mem.position, raised |-> TRUE]
       ELSE [buffer |-> [appended EXCEPT ![mem.position + 1] = item],
             position |-> (mem.position + 1) % mem.capacity,
             raised |-> FALSE]

\* A removal that leaves the position where it was.
PositionKept(mem, new_buffer) == mem.position

\* self.position = len(self.buffer) % self.capacity
PositionAfterRemoval(mem, new_buffer) == Len(new_buffer) % mem.capacity

\* new_buffer: the elements whose index was not sampled, in their order.
Remaining(buffer, sample_indices) ==
    SelectSeq([i \in 1..Len(buffer) |-> <<i - 1, buffer[i]>>],
              LAMBDA e : e[1] \notin Range(sample_indices))

NewBuffer(buffer, sample_indices) ==
    LET kept == Remaining(buffer, sample_indices)
    IN [i \in 1..Len(kept) |-> kept[i][2]]

\* sample(batch_size, get_cost, remove_samples) for the indices drawn.
SampleFrom(mem, sample_indices, remove_samples) ==
    LET batch == [i \in 1..Len(sample_indices) |-> mem.buffer[sample_indices[i] + 1]]
        new_buffer == NewBuffer(mem.buffer, sample_indices)
    IN IF remove_samples
       THEN [buffer |-> new_buffer, position |-> PositionAfterRemoval(mem, new_buffer),
             batch |-> batch]
       ELSE [buffer |-> mem.buffer, position |-> mem.position, batch |-> batch]

InitMemory ==
    /\ horizon = 0
    /\ polys = "none"
    /\ env = "none"
    /\ lpTie = "low"
    /\ saved_state = None
    /\ saved_action = None
    /\ shield_times = 0
    /\ agent_times = 0
    /\ total_time = 0
    /\ last = [op |-> "init"]
    /\ tally = NoTally
    /\ csc = NoCsc
    /\ \E capacity \in Capacities : memory = NewMemory(capacity)

\* ReplayMemory.push
Push ==
    /\ memory.pushes < MaxPush
    /\ ~memory.raised
    /\ \E item \in {memory.pushes + 1} : \E r \in {PushTo(memory, item)} :
          memory' = [memory EXCEPT !.buffer = r.buffer, !.position = r.position,
                                   !.op = "push", !.raised = r.raised,
                                   !.pushes = item, !.item = item,
                                   !.prev = memory.buffer, !.indices = << >>,
                                   !.remove = FALSE, !.batch = << >>]
    /\ UNCHANGED <<config, saved_state, saved_action, shield_times, agent_times,
                   total_time, last, tally, csc>>

\* ReplayMemory.sample with a batch size random.sample and np.stack accept:
\* at least one element and no more than the buffer holds.
Sample(batch_size, remove_samples) ==
    /\ ~memory.raised
    /\ batch_size >= 1
    /\ batch_size <= Len(memory.buffer)
    /\ \E sample_indices \in RandomSample(Len(memory.buffer), batch_size) :
       \E r \in {SampleFrom(memory, sample_indices, remove_samples)} :
          memory' = [memory EXCEPT !.buffer = r.buffer, !.position = r.position,
                                   !.op = "sample", !.item = 0,
                                   !.prev = memory.buffer, !.indices = sample_indices,
                                   !.remove = remove_samples, !.batch = r.batch]
    /\ UNCHANGED <<config, saved_state, saved_action, shield_times, agent_times,
                   total_time, last, tally, csc>>

\* ReplayMemory.sample with a batch size that is refused: random.sample
\* raises ValueError for more elements than the buffer holds, and the
\* unpacking of an empty batch raises ValueError; the memory is unchanged.
SampleRefused(batch_size, remove_samples) ==
    /\ ~memory.raised
    /\ batch_size = 0 \/ batch_size > Len(memory.buffer)
    /\ memory' = [memory EXCEPT !.op = "refused", !.item = 0,
                                !.prev = memory.buffer, !.indices = << >>,
                                !.remove = remove_samples, !.batch = << >>]
    /\ UNCHANGED <<config, saved_state, saved_action, shield_times, agent_times,
                   total_time, last, tally, csc>>

NextMemory ==
    \/ Push
    \/ \E batch_size \in 0..(MaxCap + 1), remove_samples \in BOOLEAN :
          Sample(batch_size, remove_samples)
    \/ \E batch_size \in 0..(MaxCap + 1), remove_samples \in BOOLEAN :
          SampleRefused(batch_size, remove_samples)

SpecMemory == InitMemory /\ [][NextMemory]_vars

\* C29: after any sequence of push and sample operations, with or without
\* remove_samples, on a ReplayMemory of capacity >= 1: len(buffer) <=
\* capacity, 0 <= position < capacity, and position = len(buffer) whenever
\* len(buffer) < capacity; so push always writes to a valid slot.
C29_PositionIsValidSlot ==
    memory.op # "none" =>
        /\ Len(memory.buffer) <= memory.capacity
        /\ 0 <= memory.position
        /\ memory.position < memory.capacity
        /\ Len(memory.buffer) < memory.capacity => memory.position = Len(memory.buffer)
        /\ ~memory.raised
        /\ memory.op = "push" => memory.buffer[((memory.position - 1) % memory.capacity) + 1] = memory.item

\* A removal from a full buffer whose writes had wrapped around.
C29_Witness ==
    /\ memory.op = "sample"
    /\ memory.remove
    /\ Len(memory.prev) = memory.capacity
    /\ memory.capacity = MaxCap
    /\ memory.prev[1] > memory.prev[2]
    /\ Len(memory.buffer) = memory.capacity - 1
    /\ memory.position = Len(memory.buffer)

\* The oldest transition of a buffer: the one pushed earliest.
Oldest(buffer) == CHOOSE x \in Range(buffer) : \A y \in Range(buffer) : x <= y

\* C30: a push onto a full ReplayMemory replaces the oldest stored
\* transition, the one pushed earliest among those stored, and keeps all
\* others, after any preceding pushes and sample(remove_samples=True).
C30_PushReplacesOldest ==
    (memory.op = "push" /\ Len(memory.prev) = memory.capacity) =>
        Range(memory.buffer) =
            (Range(memory.prev) \ {Oldest(memory.prev)}) \cup {memory.item}

====
